---- MODULE Spec2Model ----
(***************************************************************************)
(* Model of officedom.word: the wrapper collections (_Documents,           *)
(* _Templates), the stateful wrappers (_Document, _Template), their        *)
(* snapshots (_LightDocument, _LightTemplate) and the automation host they *)
(* talk to.  The host (the word processor) is the environment: it is       *)
(* modelled by what the facade's calls and the tests rely on.              *)
(*                                                                         *)
(* Strings whose case matters are records with a flag `u` (TRUE: the text  *)
(* has upper-case letters); str.lower() clears the flag.                   *)
(***************************************************************************)
EXTENDS Integers, Sequences, FiniteSets, TLC

\* ------------------------------------------------------------------ bounds
\* host document objects created in one run
MaxObj == 2
\* local snapshot mutations in one run
MaxEdits == 1
\* save, save_as and template save calls in one run
MaxSaves == 1

\* ------------------------------------------------------------- host universe
NormalT == "normal"
Tmpls == {"normal", "t1", "t2"}
DocFiles == {"a.doc", "b.doc"}
NoPath == "unsaved"
\* a template file can be opened as a document: its path is the template
Paths == DocFiles \cup Tmpls
ThemeNames == {"none", "blends"}
\* "xx" is a language whose writing-style query the host rejects
Langs == {"en", "xx", "fr"}
\* Application.Languages, in the order the host enumerates it
HostLanguages == <<"en", "xx", "fr">>
LangAttrs == {"ID", "Name", "NameLocal"}

VARIABLES
    hdocs,      \* host: open document objects, oid -> [path, theme, tmpl]
    disk,       \* host: saved files, document path -> [theme, tmpl] and
                \* template -> [auto]
    hauto,      \* host: template -> auto-text entries (name -> value)
    nextObj,    \* host: next document object identity
    docs,       \* _Documents._wrapper_list
    tmpls,      \* _Templates._wrapper_list
    nextW,      \* identity of the next _Document wrapper object
    edits,      \* number of local snapshot mutations so far
    saves,      \* number of save calls so far
    hist,       \* the last facade call and its result
    scope,      \* the with-statements the caller is in, and their exits
    res         \* the result of the read the caller has just made

vars == <<hdocs, disk, hauto, nextObj, docs, tmpls, nextW, edits, saves, hist,
          scope, res>>

\* ------------------------------------------------------------------ strings
NO_OBJ == [n |-> "none", u |-> FALSE]

Lower(s) == [s EXCEPT !.u = FALSE]

\* Template.FullName as the host reports it (a mixed-case full path)
FullName(t) == [t |-> t, full |-> TRUE, u |-> TRUE]

\* Template.Name: the file name without its directory
ShortName(t) == [t |-> t, full |-> FALSE, u |-> TRUE]

\* what a caller may assign to _Document.attached_template: a template
\* (str() gives its FullName), its full name or its name
TmplValues == UNION {{FullName(t), ShortName(t)} : t \in Tmpls}

\* what a caller may assign to _LightDocument.attached_template: the setter
\* keeps str(value) of anything; here a full name, as the lower-case text the
\* attached_template getters return, and a name without its directory
LightTmplValues == {Lower(FullName(t)) : t \in Tmpls} \cup {Lower(ShortName("t2"))}

\* theme values a caller may assign to _LightDocument.active_theme: the
\* sentinel, "None" and a theme's name in lower case
LightThemeValues == {NO_OBJ, [n |-> "none", u |-> TRUE], [n |-> "blends", u |-> FALSE]}

\* the template the host resolves a name or path to
HostResolve(v) == v.t

\* Document.ActiveTheme as the host reports it
HostActiveTheme(hd) ==
    IF hd.theme = "none" THEN NO_OBJ ELSE [n |-> hd.theme, u |-> TRUE]

\* ActiveWritingStyle(lang.ID): fails for a language without a style
HostStyleFails(lang) == lang = "xx"

\* the writing style of a document nobody has changed the style of
DefaultStyle == "grammar only"

\* ActiveWritingStyle(lang.ID) of the host document
HostStyle(hd, lang) == [n |-> hd.style, u |-> TRUE]

\* the host's Templates collection: the normal template and every template
\* attached to an open document
HostTemplates(hd) == {NormalT} \cup {hd[o].tmpl : o \in DOMAIN hd}

\* An automation handle is [obj, held]: obj is the host object it denotes;
\* held tells the proxy a wrapper keeps (TRUE) from the proxy the host has
\* just returned (FALSE), which is never the same proxy as a kept one.
Returned(o) == [obj |-> o, held |-> FALSE]

Held(h) == [h EXCEPT !.held = TRUE]

\* equality of the proxies themselves, not of what they denote
HostEqIdentity(a, b) == a = b

\* host equality of two automation handles: identity of the host object
HostEq(a, b) == a.obj = b.obj

\* ------------------------------------------------------------- finite maps
Put(f, k, v) == [x \in DOMAIN f \cup {k} |-> IF x = k THEN v ELSE f[x]]

Drop(f, k) == [x \in DOMAIN f \ {k} |-> f[x]]

EmptyMap == [x \in {} |-> 0]

\* ---------------------------------------------------------------- snapshots
\* _LightDocument._style_entry and the loop of _LightDocument.__init__
\* the entries of one language: _style_entry for "ID", "Name", "NameLocal";
\* a key <<lang, attr>> stands for the lower-case value of the attribute
StyleEntries(hd, lang) ==
    [k \in {<<lang, a>> : a \in LangAttrs} |-> Lower(HostStyle(hd, lang))]

\* a pass that starts the map over when the query fails
StyleStepDiscard(m, hd, lang) ==
    IF HostStyleFails(lang) THEN EmptyMap ELSE StyleEntries(hd, lang) @@ m

\* one pass of the loop: the com_error of ActiveWritingStyle is passed over,
\* else the map is updated with the three entries
StyleStep(m, hd, lang) ==
    IF HostStyleFails(lang) THEN m ELSE StyleEntries(hd, lang) @@ m

RECURSIVE CaptureStyleLoop(_, _, _)
CaptureStyleLoop(m, hd, langs) ==
    IF langs = <<>> THEN m
    ELSE CaptureStyleLoop(StyleStep(m, hd, Head(langs)), hd, Tail(langs))

CaptureStyleOf(hd) == CaptureStyleLoop(EmptyMap, hd, HostLanguages)

\* the styles captured from a document nobody has changed the style of
CaptureStyle == CaptureStyleOf([style |-> DefaultStyle])

LightDocument(hd) ==
    [theme |-> HostActiveTheme(hd),
     tmpl |-> FullName(hd.tmpl),
     style |-> CaptureStyleOf(hd)]

LightTemplate(t, ha) == [auto |-> ha[t]]

\* the public attributes LightObject.__eq__ compares
DocView(d) == [active_theme |-> Lower(d.theme),
               attached_template |-> Lower(d.tmpl),
               active_writing_style |-> d.style]

\* an equality test that stops after the first attribute dir() lists
LightEqThemeOnly(a, b) == DocView(a).active_theme = DocView(b).active_theme

LightEq(a, b) == DocView(a) = DocView(b)

\* LightObject.__ne__: not self == other
LightNe(a, b) == ~LightEq(a, b)

\* the public attribute LightObject.__eq__ compares of a _LightTemplate
TmplView(t) == [auto_text_entries |-> t.auto]

LightTmplEq(a, b) == TmplView(a) = TmplView(b)

LightTmplNe(a, b) == ~LightTmplEq(a, b)

\* ------------------------------------------------------- ReadOnlyList parts
\* index of the first wrapper whose raw object equals raw_obj, 0 for ValueError
GetWrapper(list, raw) ==
    LET hit == {i \in 1..Len(list) : HostEq(list[i].raw, raw)}
    IN IF hit = {} THEN 0 ELSE CHOOSE i \in hit : \A j \in hit : i <= j

\* list.remove(x): drops the first element equal to x
ListRemove(list, x) ==
    LET hit == {i \in 1..Len(list) : list[i] = x}
        k == CHOOSE i \in hit : \A j \in hit : i <= j
    IN IF hit = {} THEN list
       ELSE SubSeq(list, 1, k - 1) \o SubSeq(list, k + 1, Len(list))

\* ---------------------------------------------------------------- _Templates
\* a wrapper object distinct from every wrapper now in the list
FreshTmplId(list) ==
    CHOOSE n \in 1..(Len(list) + 1) :
        /\ \A i \in 1..Len(list) : list[i].w # n
        /\ \A m \in 1..(n - 1) : \E i \in 1..Len(list) : list[i].w = m

NewTemplate(list, raw, ha) ==
    [w |-> FreshTmplId(list), raw |-> Held(raw), data |-> LightTemplate(raw.obj, ha)]

TemplatesAdd(list, tmpl) == Append(list, tmpl)

\* the loop of _Templates.cleanup: count scans, num is the length left
RECURSIVE CleanupLoop(_, _, _, _)
CleanupLoop(list, count, num, live) ==
    IF count < num
    THEN IF \E t \in live : list[count + 1].raw.obj = t
         THEN CleanupLoop(list, count + 1, num, live)
         ELSE CleanupLoop(ListRemove(list, list[count + 1]), count, num - 1, live)
    ELSE list

\* cleanup that purges nothing
CleanupNone(list, live) == list

\* cleanup that resets the list, as _Documents.close does with its own
CleanupAll(list, live) == <<>>

\* _Templates.cleanup
Cleanup(list, live) == CleanupLoop(list, 0, Len(list), live)

\* ---------------------------------------------------------------- _Documents
\* a document that takes the wrapper object made last instead of a new one
NewDocumentPooled(w, raw, hd) ==
    [w |-> IF w > 1 THEN w - 1 ELSE w, raw |-> Held(raw),
     data |-> LightDocument(hd[raw.obj])]

NewDocument(w, raw, hd) ==
    [w |-> w, raw |-> Held(raw), data |-> LightDocument(hd[raw.obj])]

\* a list that takes the new document at its front
AddNewDocFront(list, raw, hd, w) == <<NewDocument(w, raw, hd)>> \o list

\* an append that captures the snapshot of every document anew
AddNewDocRefreshAll(list, raw, hd, w) ==
    Append([i \in 1..Len(list) |->
               [list[i] EXCEPT !.data = LightDocument(hd[list[i].raw.obj])]],
           NewDocument(w, raw, hd))

\* _add_new_doc: always appends a new wrapper
AddNewDoc(list, raw, hd, w) == Append(list, NewDocument(w, raw, hd))

\* add_raw_doc that never finds the wrapper
AddRawDocAlways(list, raw, hd, w) == AddNewDoc(list, raw, hd, w)

\* add_raw_doc that captures the snapshot of the wrapper it finds anew
AddRawDocRecapture(list, raw, hd, w) ==
    IF GetWrapper(list, raw) # 0
    THEN [list EXCEPT ![GetWrapper(list, raw)].data = LightDocument(hd[raw.obj])]
    ELSE AddNewDoc(list, raw, hd, w)

\* add_raw_doc: find the wrapper of the raw document, else add one
AddRawDoc(list, raw, hd, w) ==
    IF GetWrapper(list, raw) # 0 THEN list ELSE AddNewDoc(list, raw, hd, w)

\* _load_tmpl without the check for a loaded template
LoadTmplAlways(list, raw, ha) ==
    IF Len(list) > 0 THEN TemplatesAdd(list, NewTemplate(list, raw, ha)) ELSE list

\* _load_tmpl: a falsy (empty) template collection is skipped
LoadTmpl(list, raw, ha) ==
    IF Len(list) > 0
    THEN IF GetWrapper(list, raw) # 0 THEN list
         ELSE TemplatesAdd(list, NewTemplate(list, raw, ha))
    ELSE list

\* refresh_tmpls without the purge
RefreshTmplsNoPurge(list, raw, hd, ha) == LoadTmpl(list, raw, ha)

\* refresh_tmpls: purge, then load
RefreshTmpls(list, raw, hd, ha) == LoadTmpl(Cleanup(list, HostTemplates(hd)), raw, ha)

\* remove that keeps the wrapper
RemoveDocKeep(list, doc) == list

\* _Documents.remove, its first statement: drop the wrapper
RemoveDoc(list, doc) == ListRemove(list, doc)

\* -------------------------------------------------------------------- host
\* the document the host builds when it opens the file at path p
HostLoadFile(p) ==
    IF p \in DocFiles
    THEN [path |-> p, theme |-> disk[p].theme, tmpl |-> disk[p].tmpl,
          style |-> DefaultStyle]
    ELSE [path |-> p, theme |-> "none", tmpl |-> p, style |-> DefaultStyle]

HostFind(p) == {o \in DOMAIN hdocs : hdocs[o].path = p}

\* what the host writes when it saves the document object
HostWrite(d, hd) ==
    IF hd.path \in DocFiles
    THEN [d EXCEPT ![hd.path] = [theme |-> hd.theme, tmpl |-> hd.tmpl]]
    ELSE d

\* ----------------------------------------------------------------- history
\* the last facade call: its name, argument, the wrapper it acted on, the
\* wrapper it returned, whether the host made or changed something for it,
\* whether it repeats the call before it (which did make or change
\* something), and the snapshot a save_as, close, open sequence carries along
NoSnap == [theme |-> NO_OBJ]

NoCall == [op |-> "none", arg |-> "", w |-> 0, ret |-> 0, fresh |-> FALSE,
           again |-> FALSE, snap |-> NoSnap]

Call(op, arg, w, ret, fresh) ==
    [op |-> op, arg |-> arg, w |-> w, ret |-> ret, fresh |-> fresh,
     again |-> (hist.op = op /\ hist.arg = arg /\ hist.w = w /\ hist.fresh),
     snap |-> IF op = "close" /\ hist.op = "save_as" /\ hist.w = w /\ hist.arg = arg
              THEN hist.snap
              ELSE IF op = "open" /\ hist.op = "close" /\ hist.arg = arg /\ fresh
              THEN hist.snap
              ELSE NoSnap]

\* no with-statement left yet: the caller is inside the application's, in
\* no document's; an exit records the release calls it made (calls), whether
\* the body raised (exc) and whether that error reached the caller (seen)
NoScope == [app |-> "in", doc |-> 0, exit |-> "none", calls |-> <<>>,
            exc |-> FALSE, seen |-> FALSE]

\* no read made since the last call
NoRead == [op |-> "none"]

\* position of the wrapper object w in the list, 0 if it is not in it
IndexOf(list, w) ==
    LET hit == {i \in 1..Len(list) : list[i].w = w}
    IN IF hit = {} THEN 0 ELSE CHOOSE i \in hit : TRUE

\* -------------------------------------------------------------------- Init
\* Application.__init__: a new host instance has no document and only the
\* normal template loaded; both collections wrap what the host enumerates
InitOther ==
    /\ hdocs = EmptyMap
    /\ disk = [p \in DocFiles \cup Tmpls |->
                 IF p = "a.doc" THEN [theme |-> "blends", tmpl |-> NormalT]
                 ELSE IF p = "b.doc" THEN [theme |-> "none", tmpl |-> "t1"]
                 ELSE [auto |-> IF p = "t1" THEN ("hi" :> "x") ELSE EmptyMap]]
    /\ hauto = [t \in Tmpls |-> IF t = "t1" THEN ("hi" :> "x") ELSE EmptyMap]
    /\ nextObj = 1
    /\ docs = <<>>
    /\ nextW = 1
    /\ edits = 0
    /\ saves = 0
    /\ hist = NoCall
    /\ scope = NoScope
    /\ res = NoRead

Init ==
    /\ InitOther
    /\ tmpls = <<NewTemplate(<<>>, Returned(NormalT), hauto)>>

\* ----------------------------------------------------------------- actions
\* _Documents.open(file_name)
Open(p) ==
        LET ex == HostFind(p)
            isNew == ex = {}
            o == IF isNew THEN nextObj ELSE CHOOSE x \in ex : TRUE
            h2 == IF isNew THEN Put(hdocs, o, HostLoadFile(p)) ELSE hdocs
            doc == Returned(o)
            t2 == LoadTmpl(tmpls, Returned(h2[o].tmpl), hauto)
            d2 == AddRawDoc(docs, doc, h2, nextW)
            made == Len(d2) > Len(docs)
        IN /\ isNew => nextObj <= MaxObj
           /\ hdocs' = h2
           /\ nextObj' = IF isNew THEN nextObj + 1 ELSE nextObj
           /\ tmpls' = t2
           /\ docs' = d2
           /\ nextW' = IF made THEN nextW + 1 ELSE nextW
           /\ hist' = Call("open", p, 0, d2[IF made THEN Len(d2) ELSE GetWrapper(docs, doc)].w, isNew)
           /\ res' = NoRead
           /\ UNCHANGED <<disk, hauto, edits, saves, scope>>

\* _Documents.add(template): a new unsaved document based on the template
Add(t) ==
        LET o == nextObj
            h2 == Put(hdocs, o, [path |-> NoPath, theme |-> "none", tmpl |-> t,
                                 style |-> DefaultStyle])
            doc == Returned(o)
            t2 == LoadTmpl(tmpls, Returned(t), hauto)
            d2 == AddNewDoc(docs, doc, h2, nextW)
        IN /\ nextObj <= MaxObj
           /\ hdocs' = h2
           /\ nextObj' = nextObj + 1
           /\ tmpls' = t2
           /\ docs' = d2
           /\ nextW' = nextW + 1
           /\ hist' = Call("add", t, 0, nextW, TRUE)
           /\ res' = NoRead
           /\ UNCHANGED <<disk, hauto, edits, saves, scope>>

\* a close that sweeps the templates first and closes the document last
HostAtSweepEarly(before, after) == before

\* the host state cleanup reads in close: the host's Close is the first
\* statement, remove and its cleanup come after it
HostAtSweep(before, after) == after

\* _Document.close(SaveChanges): host close, then _Documents.remove
DocClose(i, save) ==
    LET d == docs[i]
        o == d.raw.obj
        h2 == Drop(hdocs, o)
    IN /\ o \in DOMAIN hdocs
       /\ save => hdocs[o].path \in DocFiles
       /\ disk' = IF save THEN HostWrite(disk, hdocs[o]) ELSE disk
       /\ hdocs' = h2
       /\ docs' = RemoveDoc(docs, d)
       /\ tmpls' = Cleanup(tmpls, HostTemplates(HostAtSweep(hdocs, h2)))
       /\ hist' = Call("close", hdocs[o].path, d.w, 0, FALSE)
       /\ res' = NoRead
       /\ UNCHANGED <<hauto, nextObj, nextW, edits, saves, scope>>

\* _Documents.close(): close all documents
CloseAll ==
    /\ docs # <<>>
    /\ hdocs' = EmptyMap
    /\ docs' = <<>>
    /\ tmpls' = Cleanup(tmpls, HostTemplates(EmptyMap))
    /\ hist' = Call("close_all", "", 0, 0, FALSE)
    /\ res' = NoRead
    /\ UNCHANGED <<disk, hauto, nextObj, nextW, edits, saves, scope>>

\* _Template.open_as_document()
OpenAsDocument(j) ==
        LET p == tmpls[j].raw.obj
            ex == HostFind(p)
            isNew == ex = {}
            o == IF isNew THEN nextObj ELSE CHOOSE x \in ex : TRUE
            h2 == IF isNew THEN Put(hdocs, o, HostLoadFile(p)) ELSE hdocs
            doc == Returned(o)
            d2 == AddRawDoc(docs, doc, h2, nextW)
            made == Len(d2) > Len(docs)
        IN /\ isNew => nextObj <= MaxObj
           /\ hdocs' = h2
           /\ nextObj' = IF isNew THEN nextObj + 1 ELSE nextObj
           /\ docs' = d2
           /\ nextW' = IF made THEN nextW + 1 ELSE nextW
           /\ hist' = Call("open_as_document", p, 0, d2[IF made THEN Len(d2) ELSE GetWrapper(docs, doc)].w, isNew)
           /\ res' = NoRead
           /\ UNCHANGED <<disk, hauto, tmpls, edits, saves, scope>>

\* a document that is a template file opened as a document is its own
\* template; its attachment is not reassigned
IsPlainDoc(o) == o \in DOMAIN hdocs /\ hdocs[o].path \notin Tmpls

\* _Document.attached_template = value (a template, its name or full name)
Reassign(i, v) ==
    LET d == docs[i]
        o == d.raw.obj
        h2 == [hdocs EXCEPT ![o].tmpl = HostResolve(v)]
    IN /\ IsPlainDoc(o)
       /\ hdocs' = h2
       /\ docs' = [docs EXCEPT ![i].data.tmpl = FullName(h2[o].tmpl)]
       /\ tmpls' = RefreshTmpls(tmpls, Returned(h2[o].tmpl), h2, hauto)
       /\ hist' = Call("reassign", HostResolve(v), d.w, 0, hdocs[o].tmpl # HostResolve(v))
       /\ res' = NoRead
       /\ UNCHANGED <<disk, hauto, nextObj, nextW, edits, saves, scope>>

LifecycleNext ==
    \/ \E p \in Paths : Open(p)
    \/ \E t \in Tmpls : Add(t)
    \/ \E i \in 1..Len(docs), save \in BOOLEAN : DocClose(i, save)
    \/ CloseAll
    \/ \E j \in 1..Len(tmpls) : OpenAsDocument(j)
    \/ \E i \in 1..Len(docs), v \in TmplValues : Reassign(i, v)

SpecLifecycle == Init /\ [][LifecycleNext]_vars

\* ------------------------------------------------------------- sync and save
\* Document.ApplyTheme(name): the host knows its themes by name, in any case
HostApplyTheme(hd, v) == [hd EXCEPT !.theme = v.n]

HostRemoveTheme(hd) == [hd EXCEPT !.theme = "none"]

\* sync that pushes the writing style too
SyncDocumentWithStyle(data, hd) ==
    [hd EXCEPT !.theme = IF Lower(data.theme) = NO_OBJ THEN "none" ELSE data.theme.n,
               !.tmpl = HostResolve(data.tmpl),
               !.style = data.style[<<"en", "ID">>].n]

\* sync that pushes the template only
SyncDocumentNoTheme(data, hd) == [hd EXCEPT !.tmpl = HostResolve(data.tmpl)]

\* the statements after a host call run only if the host call returns
AfterHostCallAlways(ok, before, after) == after

AfterHostCall(ok, before, after) == IF ok THEN after ELSE before

\* a sync that clears the theme and then sets it
SyncThemeCallsBoth(data) ==
    <<[op |-> "RemoveTheme", args |-> <<>>],
      [op |-> "ApplyTheme", args |-> <<data.theme>>]>>

\* the host calls _LightDocument.sync makes for the theme: RemoveTheme if the
\* active_theme property (lower case) is NO_OBJ, else ApplyTheme with the
\* value as it was assigned
SyncThemeCalls(data) ==
    IF Lower(data.theme) = NO_OBJ
    THEN <<[op |-> "RemoveTheme", args |-> <<>>]>>
    ELSE <<[op |-> "ApplyTheme", args |-> <<data.theme>>]>>

\* the host document after the calls, made in order
RECURSIVE HostRun(_, _)
HostRun(hd, calls) ==
    IF calls = <<>> THEN hd
    ELSE HostRun(IF Head(calls).op = "RemoveTheme" THEN HostRemoveTheme(hd)
                 ELSE HostApplyTheme(hd, Head(calls).args[1]),
                 Tail(calls))

\* ApplyTheme fails for a name that is no theme of the host
HostRejectsTheme(v) == v.n \notin ThemeNames

\* sync raises: one of its host calls fails
SyncFails(data) ==
    \E k \in 1..Len(SyncThemeCalls(data)) :
        /\ SyncThemeCalls(data)[k].op = "ApplyTheme"
        /\ HostRejectsTheme(SyncThemeCalls(data)[k].args[1])

\* _LightDocument.sync: the theme, then the attached template; the writing
\* styles are not pushed
SyncDocument(data, hd) ==
    LET h1 == HostRun(hd, SyncThemeCalls(data))
    IN [h1 EXCEPT !.tmpl = HostResolve(data.tmpl)]

\* a save that writes the file first and syncs afterwards
HostAtSaveEarly(before, synced) == before

\* what the host's Save writes: sync is the statement before it, so the
\* object as sync left it
HostAtSave(before, synced) == synced

\* AutoTextEntry.Delete() on every entry the host enumerates
DeleteEntries(m) == [n \in {} |-> m[n]]

\* AutoTextEntries.Add(name, range).Value = val for every local entry
AddEntries(m, local) ==
    [n \in DOMAIN m \cup DOMAIN local |-> IF n \in DOMAIN local THEN local[n] ELSE m[n]]

\* sync that leaves the host's entries in place
SyncTemplateNoDelete(data, m) == AddEntries(m, data.auto)

\* _LightTemplate.sync
SyncTemplate(data, m) == AddEntries(DeleteEntries(m), data.auto)

\* the mappings a caller assigns: none, a new name, a new value for a name
\* the host has, two entries
AutoMaps == {EmptyMap, ("dear" :> "honey"), ("hi" :> "honey"),
             ("dear" :> "honey") @@ ("hi" :> "x")}

\* the writing-style entry a caller overwrites
StyleKeys == {<<"en", "ID">>}

\* doc.data.active_theme = v
EditTheme(i, v) ==
    /\ edits < MaxEdits
    /\ docs[i].data.theme # v
    /\ docs' = [docs EXCEPT ![i].data.theme = v]
    /\ edits' = edits + 1
    /\ hist' = Call("edit_theme", "", 0, 0, FALSE)
    /\ res' = NoRead
    /\ UNCHANGED <<hdocs, disk, hauto, nextObj, tmpls, nextW, saves, scope>>

\* doc.data.attached_template = v
EditTmpl(i, v) ==
    /\ edits < MaxEdits
    /\ IsPlainDoc(docs[i].raw.obj)
    /\ docs[i].data.tmpl # v
    /\ docs' = [docs EXCEPT ![i].data.tmpl = v]
    /\ edits' = edits + 1
    /\ hist' = Call("edit_tmpl", "", 0, 0, FALSE)
    /\ res' = NoRead
    /\ UNCHANGED <<hdocs, disk, hauto, nextObj, tmpls, nextW, saves, scope>>

\* doc.data.active_writing_style[key] = style
EditStyle(i, k) ==
    /\ edits < MaxEdits
    /\ docs' = [docs EXCEPT ![i].data.style =
                  [x \in DOMAIN @ \cup {k} |-> IF x = k THEN [n |-> "spelling", u |-> FALSE] ELSE @[x]]]
    /\ docs' # docs
    /\ edits' = edits + 1
    /\ hist' = Call("edit_style", "", 0, 0, FALSE)
    /\ res' = NoRead
    /\ UNCHANGED <<hdocs, disk, hauto, nextObj, tmpls, nextW, saves, scope>>

\* tmpl.data.auto_text_entries = m
EditAuto(j, m) ==
    /\ edits < MaxEdits
    /\ tmpls[j].data.auto # m
    /\ tmpls' = [tmpls EXCEPT ![j].data.auto = m]
    /\ edits' = edits + 1
    /\ hist' = Call("edit_auto", tmpls[j].raw.obj, 0, 0, FALSE)
    /\ res' = NoRead
    /\ UNCHANGED <<hdocs, disk, hauto, nextObj, docs, nextW, saves, scope>>

\* _Document.save(): sync, then the host's Save of a document that has a file
DocSave(i) ==
    LET d == docs[i]
        o == d.raw.obj
        ok == ~SyncFails(d.data)
        hd == AfterHostCall(ok, hdocs[o], SyncDocument(d.data, hdocs[o]))
    IN /\ saves < MaxSaves
       /\ o \in DOMAIN hdocs
       /\ hdocs[o].path \in DocFiles
       /\ hdocs' = [hdocs EXCEPT ![o] = hd]
       /\ disk' = AfterHostCall(ok, disk, HostWrite(disk, HostAtSave(hdocs[o], hd)))
       /\ saves' = saves + 1
       /\ hist' = Call(IF ok THEN "save" ELSE "save_failed", "", d.w, 0, FALSE)
       /\ res' = NoRead
       /\ UNCHANGED <<hauto, nextObj, docs, tmpls, nextW, edits, scope>>

\* _Document.save_as(path): sync, then the host's SaveAs to a file that no
\* other open document holds
DocSaveAs(i, p) ==
    LET d == docs[i]
        o == d.raw.obj
        ok == ~SyncFails(d.data)
        hd == AfterHostCall(ok, hdocs[o],
                            [SyncDocument(d.data, hdocs[o]) EXCEPT !.path = p])
    IN /\ saves < MaxSaves
       /\ IsPlainDoc(o)
       /\ HostFind(p) \subseteq {o}
       /\ hdocs' = [hdocs EXCEPT ![o] = hd]
       /\ disk' = AfterHostCall(ok, disk,
                     HostWrite(disk, HostAtSave([hdocs[o] EXCEPT !.path = p], hd)))
       /\ saves' = saves + 1
       /\ hist' = IF ok
                  THEN [Call("save_as", p, d.w, 0, FALSE) EXCEPT !.snap = d.data]
                  ELSE Call("save_failed", p, d.w, 0, FALSE)
       /\ res' = NoRead
       /\ UNCHANGED <<hauto, nextObj, docs, tmpls, nextW, edits, scope>>

\* _Template.save(): sync, then the host's Save
TmplSave(j) ==
    LET t == tmpls[j].raw.obj
    IN /\ saves < MaxSaves
       /\ t \in HostTemplates(hdocs)
       /\ hauto' = [hauto EXCEPT ![t] = SyncTemplate(tmpls[j].data, @)]
       /\ disk' = [disk EXCEPT ![t] = [auto |-> HostAtSave(hauto[t], hauto'[t])]]
       /\ saves' = saves + 1
       /\ hist' = Call("tmpl_save", t, 0, 0, FALSE)
       /\ res' = NoRead
       /\ UNCHANGED <<hdocs, nextObj, docs, tmpls, nextW, edits, scope>>

\* the facade calls that involve document snapshots
Next ==
    \/ LifecycleNext
    \/ \E i \in 1..Len(docs), v \in LightThemeValues : EditTheme(i, v)
    \/ \E i \in 1..Len(docs), v \in LightTmplValues : EditTmpl(i, v)
    \/ \E i \in 1..Len(docs), k \in StyleKeys : EditStyle(i, k)
    \/ \E i \in 1..Len(docs) : DocSave(i)
    \/ \E i \in 1..Len(docs), p \in DocFiles : DocSaveAs(i, p)

Spec == Init /\ [][Next]_vars

\* the facade calls that involve template snapshots
TmplNext ==
    \/ LifecycleNext
    \/ \E j \in 1..Len(tmpls), m \in AutoMaps : EditAuto(j, m)
    \/ \E j \in 1..Len(tmpls) : TmplSave(j)

SpecTmpl == Init /\ [][TmplNext]_vars

\* a theme name the host has no theme for
BadTheme == [n |-> "nosuch", u |-> FALSE]

\* open, add, close, the snapshot assignments (a theme the host rejects among
\* them) and the three save methods
SaveNext ==
    \/ \E p \in Paths : Open(p)
    \/ \E t \in Tmpls : Add(t)
    \/ \E i \in 1..Len(docs), save \in BOOLEAN : DocClose(i, save)
    \/ \E i \in 1..Len(docs), v \in LightThemeValues \cup {BadTheme} : EditTheme(i, v)
    \/ \E i \in 1..Len(docs), v \in LightTmplValues : EditTmpl(i, v)
    \/ \E j \in 1..Len(tmpls), m \in AutoMaps : EditAuto(j, m)
    \/ \E i \in 1..Len(docs) : DocSave(i)
    \/ \E i \in 1..Len(docs), p \in DocFiles : DocSaveAs(i, p)
    \/ \E j \in 1..Len(tmpls) : TmplSave(j)

SpecSave == Init /\ [][SaveNext]_vars

\* a == b, a != b, b == a and a == a for the snapshots of two documents
CompareDocs(i, j) ==
    LET a == docs[i].data
        b == docs[j].data
    IN /\ res = NoRead
       /\ res' = [op |-> "eq", kind |-> "doc", i |-> i, j |-> j, a |-> a, b |-> b,
                  eq |-> LightEq(a, b), ne |-> LightNe(a, b),
                  rev |-> LightEq(b, a), self |-> LightEq(a, a)]
       /\ UNCHANGED <<hdocs, disk, hauto, nextObj, docs, tmpls, nextW, edits, saves,
                      hist, scope>>

\* the same for the snapshots of two templates
CompareTmpls(i, j) ==
    LET a == tmpls[i].data
        b == tmpls[j].data
    IN /\ res = NoRead
       /\ res' = [op |-> "eq", kind |-> "tmpl", i |-> i, j |-> j, a |-> a, b |-> b,
                  eq |-> LightTmplEq(a, b), ne |-> LightTmplNe(a, b),
                  rev |-> LightTmplEq(b, a), self |-> LightTmplEq(a, a)]
       /\ UNCHANGED <<hdocs, disk, hauto, nextObj, docs, tmpls, nextW, edits, saves,
                      hist, scope>>

\* documents opened and added, their snapshots and the templates' assigned to
EqCalls ==
    \/ \E p \in Paths : Open(p)
    \/ \E t \in Tmpls : Add(t)
    \/ \E i \in 1..Len(docs), v \in LightThemeValues : EditTheme(i, v)
    \/ \E i \in 1..Len(docs), v \in LightTmplValues : EditTmpl(i, v)
    \/ \E i \in 1..Len(docs), k \in StyleKeys : EditStyle(i, k)
    \/ \E j \in 1..Len(tmpls), m \in AutoMaps : EditAuto(j, m)

\* those calls, and any two snapshots of a kind compared; the run is not
\* followed beyond the comparison
EqNext ==
    \/ res = NoRead /\ EqCalls
    \/ \E i, j \in 1..Len(docs) : CompareDocs(i, j)
    \/ \E i, j \in 1..Len(tmpls) : CompareTmpls(i, j)

SpecEq == Init /\ [][EqNext]_vars

\* ------------------------------------------------------------------ scopes
\* the body's error is on its way out of a document's with-statement
Raising == scope.exit = "doc" /\ scope.seen

\* Application.__exit__ that returns a true value
AppExitSwallow(exc) ==
    [calls |-> <<[op |-> "quit", args |-> <<>>]>>, suppress |-> TRUE]

\* Application.__exit__: self.quit(), and no return value
AppExit(exc) ==
    [calls |-> <<[op |-> "quit", args |-> <<>>]>>, suppress |-> FALSE]

\* _Document.__exit__ that closes nothing
DocExitNoClose(exc) == [calls |-> <<>>, suppress |-> FALSE]

\* _Document.__exit__: self.close(), and no return value
DocExitCalls(exc) ==
    [calls |-> <<[op |-> "close", args |-> <<>>]>>, suppress |-> FALSE]

\* the with statement re-raises the body's error unless __exit__ returned a
\* true value
WithReraises(exc, ex) == exc /\ ~ex.suppress

\* leaving "with Application() as app": __exit__, the host quits and closes
\* its documents; exc tells whether the body raised
ExitApp(exc) ==
    LET ex == AppExit(exc)
    IN /\ scope.app = "in" /\ scope.doc = 0
       /\ Raising => exc
       /\ hdocs' = IF ex.calls # <<>> THEN EmptyMap ELSE hdocs
       /\ scope' = [app |-> "out", doc |-> 0, exit |-> "app", calls |-> ex.calls,
                    exc |-> exc, seen |-> WithReraises(exc, ex)]
       /\ hist' = Call("quit", "", 0, 0, FALSE)
       /\ res' = NoRead
       /\ UNCHANGED <<disk, hauto, nextObj, docs, tmpls, nextW, edits, saves>>

\* entering "with doc": _Document.__enter__ returns the document
DocEnter(i) ==
    /\ scope.app = "in" /\ scope.doc = 0 /\ ~Raising
    /\ scope' = [NoScope EXCEPT !.doc = docs[i].w]
    /\ hist' = Call("enter", "", docs[i].w, 0, FALSE)
    /\ res' = NoRead
    /\ UNCHANGED <<hdocs, disk, hauto, nextObj, docs, tmpls, nextW, edits, saves>>

\* leaving "with doc": __exit__ closes the document; the host's Close fails
\* (ok = FALSE) at the host's will, and always for a document that is closed
DocExit(exc, ok) ==
    LET ex == DocExitCalls(exc)
        i == IndexOf(docs, scope.doc)
        live == i # 0 /\ docs[i].raw.obj \in DOMAIN hdocs
        closes == ex.calls # <<>>
        done == closes /\ ok
        h2 == IF done THEN Drop(hdocs, docs[i].raw.obj) ELSE hdocs
    IN /\ scope.app = "in" /\ scope.doc # 0
       /\ ok => live
       /\ hdocs' = h2
       /\ docs' = IF closes /\ i # 0
                  THEN AfterHostCall(ok, docs, RemoveDoc(docs, docs[i]))
                  ELSE docs
       /\ tmpls' = IF closes /\ i # 0
                   THEN AfterHostCall(ok, tmpls, Cleanup(tmpls, HostTemplates(h2)))
                   ELSE tmpls
       /\ scope' = [app |-> "in", doc |-> 0, exit |-> "doc", calls |-> ex.calls,
                    exc |-> exc,
                    seen |-> WithReraises(exc, ex) \/ (closes /\ ~ok)]
       /\ hist' = Call(IF done THEN "close" ELSE IF closes THEN "close_failed" ELSE "exit",
                       IF live THEN hdocs[docs[i].raw.obj].path ELSE "",
                       scope.doc, 0, FALSE)
       /\ res' = NoRead
       /\ UNCHANGED <<disk, hauto, nextObj, nextW, edits, saves>>

\* _Document.close(...) whose host Close fails: the document stays open
DocCloseFails(i) ==
    LET d == docs[i]
        o == d.raw.obj
    IN /\ scope.app = "in" /\ ~Raising
       /\ docs' = AfterHostCall(FALSE, docs, RemoveDoc(docs, d))
       /\ tmpls' = AfterHostCall(FALSE, tmpls, Cleanup(tmpls, HostTemplates(hdocs)))
       /\ hist' = Call("close_failed",
                       IF o \in DOMAIN hdocs THEN hdocs[o].path ELSE "", d.w, 0, FALSE)
       /\ res' = NoRead
       /\ UNCHANGED <<hdocs, disk, hauto, nextObj, nextW, edits, saves, scope>>

\* _Documents.close(...) whose host Close fails after the host has closed the
\* documents in gone, not all of them
CloseAllFails(gone) ==
    LET h2 == [o \in DOMAIN hdocs \ gone |-> hdocs[o]]
    IN /\ scope.app = "in" /\ ~Raising
       /\ docs # <<>>
       /\ gone # DOMAIN hdocs
       /\ hdocs' = h2
       /\ docs' = AfterHostCall(FALSE, docs, <<>>)
       /\ tmpls' = AfterHostCall(FALSE, tmpls, Cleanup(tmpls, HostTemplates(h2)))
       /\ hist' = Call("close_all_failed", "", 0, 0, FALSE)
       /\ res' = NoRead
       /\ UNCHANGED <<disk, hauto, nextObj, nextW, edits, saves, scope>>

\* the facade calls inside with-statements, host failures of close included
ScopeNext ==
    \/ scope.app = "in" /\ ~Raising /\ LifecycleNext
    \/ \E i \in 1..Len(docs) : DocCloseFails(i)
    \/ \E gone \in SUBSET DOMAIN hdocs : CloseAllFails(gone)
    \/ \E i \in 1..Len(docs) : DocEnter(i)
    \/ \E exc, ok \in BOOLEAN : DocExit(exc, ok)
    \/ \E exc \in BOOLEAN : ExitApp(exc)

SpecScope == Init /\ [][ScopeNext]_vars

\* ------------------------------------------------------ failed open and add
\* the statement of open or add that raises: the host's Open or Add ("host"),
\* the template load, i.e. doc.AttachedTemplate or _Template(...) ("tmpl"),
\* or _LightDocument(doc) in _Document(...) ("capture")
FailSteps == {"host", "tmpl", "capture"}

OpenFailedOp == [host |-> "open_failed_host", tmpl |-> "open_failed_tmpl",
                 capture |-> "open_failed_capture"]

AddFailedOp == [host |-> "add_failed_host", tmpl |-> "add_failed_tmpl",
                capture |-> "add_failed_capture"]

\* _Documents.open(file_name) that raises at the given statement: the
\* statements before it have run, it and those after it have not
OpenFails(p, step) ==
        LET ex == HostFind(p)
            isNew == ex = {}
            o == IF isNew THEN nextObj ELSE CHOOSE x \in ex : TRUE
            h2 == IF isNew THEN Put(hdocs, o, HostLoadFile(p)) ELSE hdocs
            made == isNew /\ step # "host"
        IN /\ made => nextObj <= MaxObj
           /\ step = "capture" => GetWrapper(docs, Returned(o)) = 0
           /\ hdocs' = AfterHostCall(step # "host", hdocs, h2)
           /\ nextObj' = IF made THEN nextObj + 1 ELSE nextObj
           /\ tmpls' = AfterHostCall(step = "capture", tmpls,
                                     LoadTmpl(tmpls, Returned(h2[o].tmpl), hauto))
           /\ docs' = AfterHostCall(FALSE, docs, AddRawDoc(docs, Returned(o), h2, nextW))
           /\ hist' = Call(OpenFailedOp[step], p, 0, 0, made)
           /\ res' = NoRead
           /\ UNCHANGED <<disk, hauto, nextW, edits, saves, scope>>

\* _Documents.add(template) that raises at the given statement
AddFails(t, step) ==
        LET o == nextObj
            h2 == Put(hdocs, o, [path |-> NoPath, theme |-> "none", tmpl |-> t,
                                 style |-> DefaultStyle])
            made == step # "host"
        IN /\ made => nextObj <= MaxObj
           /\ hdocs' = AfterHostCall(made, hdocs, h2)
           /\ nextObj' = IF made THEN nextObj + 1 ELSE nextObj
           /\ tmpls' = AfterHostCall(step = "capture", tmpls,
                                     LoadTmpl(tmpls, Returned(t), hauto))
           /\ docs' = AfterHostCall(FALSE, docs, AddNewDoc(docs, Returned(o), h2, nextW))
           /\ hist' = Call(AddFailedOp[step], t, 0, 0, made)
           /\ res' = NoRead
           /\ UNCHANGED <<disk, hauto, nextW, edits, saves, scope>>

\* the lifecycle calls, and open and add that raise
FailNext ==
    \/ LifecycleNext
    \/ \E p \in Paths, step \in FailSteps : OpenFails(p, step)
    \/ \E t \in Tmpls, step \in FailSteps : AddFails(t, step)

SpecFail == Init /\ [][FailNext]_vars

\* ------------------------------------------------------------------- reads
\* sys.maxint, the upper bound the interpreter passes for an omitted one
MaxInt == 2147483647

Min(a, b) == IF a < b THEN a ELSE b

Max(a, b) == IF a > b THEN a ELSE b

\* A subscript key is an integer [kind "int", i], a string [kind "str", s], a
\* slice object [kind "xslice", start, stop, step] as coll[i:j:k] builds it, or
\* the bounds [kind "slice", start, stop] of a simple slicing coll[i:j]; an
\* omitted bound or step is <<>>, a given one <<v>>.
\* A result is [err, out, list]: the error raised ("none" if none), the value
\* returned (wrappers by their identity) and the list as the operation leaves
\* it.
Ids(list) == [i \in 1..Len(list) |-> list[i].w]

Ok(out, list) == [err |-> "none", out |-> out, list |-> list]

Fail(err, list) == [err |-> err, out |-> 0, list |-> list]

\* list[k] for an integer k
ListItem(list, k) ==
    LET n == Len(list)
        j == IF k < 0 THEN k + n ELSE k
    IN IF 0 <= j /\ j < n THEN Ok(list[j + 1].w, list) ELSE Fail("IndexError", list)

\* list[slice(start, stop, step)], step not 0: slice.indices, then the items
ListSlice(list, start, stop, step) ==
    LET n == Len(list)
        st == IF step = <<>> THEN 1 ELSE step[1]
        lower == IF st > 0 THEN 0 ELSE -1
        upper == IF st > 0 THEN n ELSE n - 1
        Clamp(v) == IF v < 0 THEN Max(v + n, lower) ELSE Min(v, upper)
        b == IF start = <<>> THEN (IF st > 0 THEN lower ELSE upper) ELSE Clamp(start[1])
        e == IF stop = <<>> THEN (IF st > 0 THEN upper ELSE lower) ELSE Clamp(stop[1])
        cnt == IF st > 0
               THEN (IF b < e THEN ((e - b - 1) \div st) + 1 ELSE 0)
               ELSE (IF b > e THEN ((b - e - 1) \div (-st)) + 1 ELSE 0)
    IN Ok([i \in 1..cnt |-> list[b + (i - 1) * st + 1].w], list)

\* list.__getitem__(key): a string is no list index
ListGetItem(list, key) ==
    CASE key.kind = "int" -> ListItem(list, key.i)
      [] key.kind = "xslice" -> ListSlice(list, key.start, key.stop, key.step)
      [] OTHER -> Fail("TypeError", list)

\* list.reverse(), which reverses in place, in the place of reversed()
ListReverseInPlace(list) ==
    LET r == [i \in 1..Len(list) |-> list[Len(list) + 1 - i]]
    IN Ok(Ids(r), r)

\* list.__reversed__: an iterator over the items, last to first
ListReversed(list) ==
    Ok([i \in 1..Len(list) |-> list[Len(list) + 1 - i].w], list)

\* the list methods ReadOnlyList.__getattr__ hands out, applied; w is the
\* wrapper passed to count, index and __contains__
ListCall(list, name, w) ==
    LET hit == {i \in 1..Len(list) : list[i].w = w}
    IN CASE name = "__len__" -> Ok(Len(list), list)
         [] name = "__iter__" -> Ok(Ids(list), list)
         [] name = "__reversed__" -> ListReversed(list)
         [] name = "__contains__" -> Ok(hit # {}, list)
         [] name = "count" -> Ok(Cardinality(hit), list)
         [] name = "index" ->
                IF hit = {} THEN Fail("ValueError", list)
                ELSE Ok((CHOOSE i \in hit : \A j \in hit : i <= j) - 1, list)

\* ReadOnlyList.__getattr__(name), the attribute then called
GetAttr(list, name, w) ==
    IF name \in {"count", "index", "__len__", "__iter__", "__reversed__", "__contains__"}
    THEN ListCall(list, name, w)
    ELSE Fail("AttributeError", list)

\* the name of an open document: its file's, or the one the host gives a new
\* document
UnsavedName(o) ==
    CASE o = 1 -> "Document1" [] o = 2 -> "Document2" [] o = 3 -> "Document3"
      [] OTHER -> "Document4"

HostDocName(o, hd) == IF hd[o].path = NoPath THEN UnsavedName(o) ELSE hd[o].path

\* the host collection called with a key, self._raw_obj(key): the documents
\* by name, the templates by full name; the host fails for a key it has no
\* member for
HostItem(c, key, hd) ==
    LET found == IF c = "docs" THEN {o \in DOMAIN hd : HostDocName(o, hd) = key}
                 ELSE {t \in HostTemplates(hd) : t = HostResolve(key)}
    IN IF found = {} THEN [ok |-> FALSE, raw |-> Returned(0)]
       ELSE [ok |-> TRUE, raw |-> Returned(CHOOSE x \in found : TRUE)]

\* an except clause that catches every error
CaughtAny(err) == err # "none"

\* an except clause that catches nothing
CaughtNone(err) == FALSE

\* except TypeError
Caught(err) == err = "TypeError"

\* get_wrapper that falls off its loop and returns None
ResolveHandleQuiet(list, raw) ==
    LET i == GetWrapper(list, raw)
    IN IF i = 0 THEN Ok(0, list) ELSE Ok(list[i].w, list)

\* ReadOnlyList.get_wrapper(raw_obj) as a call: the wrapper, or ValueError
ResolveHandle(list, raw) ==
    LET i == GetWrapper(list, raw)
    IN IF i = 0 THEN Fail("ValueError", list) ELSE Ok(list[i].w, list)

\* ReadOnlyList.__getitem__(key); host tells whether the key went to the host
GetItem(c, list, key, hd) ==
    LET r == ListGetItem(list, key)
        h == HostItem(c, IF key.kind = "str" THEN key.s ELSE "", hd)
    IN IF Caught(r.err)
       THEN [host |-> TRUE] @@
            (IF ~h.ok THEN Fail("com_error", list) ELSE ResolveHandle(list, h.raw))
       ELSE [host |-> FALSE] @@ r

\* the slice object a simple slicing coll[i:j] of a classic instance hands to
\* __getitem__: an omitted bound is 0 or sys.maxint, and if a bound is
\* negative the length is added to each negative bound
SimpleSlice(list, key) ==
    LET lo == IF key.start = <<>> THEN 0 ELSE key.start[1]
        hi == IF key.stop = <<>> THEN MaxInt ELSE key.stop[1]
        Adj(v) == IF v < 0 THEN v + Len(list) ELSE v
    IN [kind |-> "xslice", start |-> <<Adj(lo)>>, stop |-> <<Adj(hi)>>, step |-> <<>>]

\* coll[key]
Subscript(c, list, key, hd) ==
    IF key.kind = "slice"
    THEN GetItem(c, list, SimpleSlice(list, key), hd)
    ELSE GetItem(c, list, key, hd)

\* a slice that is the list itself
SliceShare(r) == r @@ [own |-> FALSE]

\* a slice is a new list
SliceCopy(r) == r @@ [own |-> TRUE]

\* the collections, and the list of each
Colls == {"docs", "tmpls"}

CollList(c) == IF c = "docs" THEN docs ELSE tmpls

\* the keys and arguments the caller reads with
IntKeys == {[kind |-> "int", i |-> k] : k \in -(MaxObj + 2)..(MaxObj + 1)}

SliceBounds == {<<>>, <<-(MaxObj + 1)>>, <<0>>, <<1>>}

SliceKeys ==
    {[kind |-> "slice", start |-> b, stop |-> e] : b, e \in SliceBounds}
    \cup {[kind |-> "xslice", start |-> b, stop |-> <<>>, step |-> <<k>>] :
             b \in {<<>>, <<1>>, <<-(MaxObj + 1)>>}, k \in {2, -1}}

StrKeys(c) ==
    IF c = "docs"
    THEN {[kind |-> "str", s |-> n] : n \in {"a.doc", "b.doc", "t1", "Document1"}}
    ELSE {[kind |-> "str", s |-> FullName(t)] : t \in Tmpls}

ListNames == {"count", "index", "__len__", "__iter__", "__reversed__",
              "__contains__", "append"}

\* coll[key], len(coll), w in coll, coll.count(w), ... : the result is what
\* the caller now looks at; a slice result is a list of the caller's
ReadItem(c, key) ==
    LET r == Subscript(c, CollList(c), key, hdocs)
    IN /\ res = NoRead
       /\ res' = [op |-> "getitem", coll |-> c, key |-> key, arg |-> 0,
                  err |-> r.err, out |-> r.out, host |-> r.host,
                  own |-> IF key.kind \in {"slice", "xslice"} THEN SliceCopy(r).own ELSE TRUE,
                  edited |-> FALSE]
       /\ docs' = IF c = "docs" THEN r.list ELSE docs
       /\ tmpls' = IF c = "tmpls" THEN r.list ELSE tmpls
       /\ UNCHANGED <<hdocs, disk, hauto, nextObj, nextW, edits, saves, hist, scope>>

ReadAttr(c, name, w) ==
    LET r == GetAttr(CollList(c), name, w)
    IN /\ res = NoRead
       /\ name \in {"count", "index", "__contains__"} \/ w = 0
       /\ res' = [op |-> name, coll |-> c, key |-> [kind |-> "none"], arg |-> w,
                  err |-> r.err, out |-> r.out, host |-> FALSE, own |-> TRUE,
                  edited |-> FALSE]
       /\ docs' = IF c = "docs" THEN r.list ELSE docs
       /\ tmpls' = IF c = "tmpls" THEN r.list ELSE tmpls
       /\ UNCHANGED <<hdocs, disk, hauto, nextObj, nextW, edits, saves, hist, scope>>

\* the host objects a caller may hold a handle of
Handles(c) == IF c = "docs" THEN DOMAIN hdocs ELSE Tmpls

\* coll.get_wrapper(raw_obj) with a handle the host has returned
ReadWrapper(c, o) ==
    LET r == ResolveHandle(CollList(c), Returned(o))
    IN /\ res = NoRead
       /\ res' = [op |-> "get_wrapper", coll |-> c, key |-> [kind |-> "raw", o |-> o],
                  arg |-> 0, err |-> r.err, out |-> r.out, host |-> FALSE,
                  own |-> TRUE, edited |-> FALSE]
       /\ docs' = IF c = "docs" THEN r.list ELSE docs
       /\ tmpls' = IF c = "tmpls" THEN r.list ELSE tmpls
       /\ UNCHANGED <<hdocs, disk, hauto, nextObj, nextW, edits, saves, hist, scope>>

\* del result[0] on a slice the caller holds
SliceEdit ==
    LET list == CollList(res.coll)
        cut == IF res.own THEN list ELSE Tail(list)
    IN /\ res.op = "getitem"
       /\ res.key.kind \in {"slice", "xslice"}
       /\ res.err = "none" /\ ~res.edited
       /\ res.out # <<>>
       /\ res' = [res EXCEPT !.out = Tail(@), !.edited = TRUE]
       /\ docs' = IF res.coll = "docs" THEN cut ELSE docs
       /\ tmpls' = IF res.coll = "tmpls" THEN cut ELSE tmpls
       /\ UNCHANGED <<hdocs, disk, hauto, nextObj, nextW, edits, saves, hist, scope>>

ReadNext ==
    \/ \E c \in Colls : \E key \in IntKeys \cup SliceKeys \cup StrKeys(c) : ReadItem(c, key)
    \/ \E c \in Colls, name \in ListNames, w \in 0..(MaxObj + 1) : ReadAttr(c, name, w)
    \/ \E c \in Colls : \E o \in Handles(c) : ReadWrapper(c, o)
    \/ SliceEdit

\* the lifecycle calls, and after any of them one read (and an edit of the
\* slice it returned); the run is not followed beyond the read
SpecRead == Init /\ [][(res = NoRead /\ LifecycleNext) \/ ReadNext]_vars

\* ---------------------------------------------------- template-set calls
\* the lists a TemplateSet may wrap: distinct templates, as many and in the
\* order the host enumerates them, none included
TmplSeqs ==
    {q \in UNION {[1..n -> Tmpls] : n \in 0..Cardinality(Tmpls)} :
        \A i, j \in DOMAIN q : q[i] = q[j] => i = j}

\* ReadOnlyList.__init__: one wrapper for each raw object, in order
WrapTmpls(q) ==
    [i \in 1..Len(q) |->
        [w |-> i, raw |-> Held(Returned(q[i])), data |-> LightTemplate(q[i], hauto)]]

InitTemplates ==
    /\ InitOther
    /\ tmpls \in {WrapTmpls(q) : q \in TmplSeqs}

\* _Documents._load_tmpl(raw_tmpl) on the TemplateSet as it is
LoadIfAbsent(h) ==
    /\ res = NoRead
    /\ tmpls' = LoadTmpl(tmpls, Returned(h), hauto)
    /\ res' = [op |-> "load", h |-> h]
    /\ UNCHANGED <<hdocs, disk, hauto, nextObj, docs, nextW, edits, saves, hist, scope>>

\* one pass of the while loop of cleanup that steps over the template after
\* one it removes
SweepBodySkip(list, count, num, live) ==
    IF \E t \in live : list[count + 1].raw.obj = t
    THEN [list |-> list, count |-> count + 1, num |-> num]
    ELSE [list |-> ListRemove(list, list[count + 1]), count |-> count + 1, num |-> num - 1]

\* one pass of the while loop of cleanup that forgets the list got shorter
SweepBodyNoShrink(list, count, num, live) ==
    IF \E t \in live : list[count + 1].raw.obj = t
    THEN [list |-> list, count |-> count + 1, num |-> num]
    ELSE [list |-> ListRemove(list, list[count + 1]), count |-> count, num |-> num]

\* one pass of the while loop of _Templates.cleanup
SweepBody(list, count, num, live) ==
    IF \E t \in live : list[count + 1].raw.obj = t
    THEN [list |-> list, count |-> count + 1, num |-> num]
    ELSE [list |-> ListRemove(list, list[count + 1]), count |-> count, num |-> num - 1]

\* _Templates.cleanup() is called: count = 0, num_of_tmpls = len(list); live
\* is what the host's Templates holds, from is the list at the call
SweepBegin(live) ==
    /\ res = NoRead
    /\ res' = [op |-> "sweep", live |-> live, from |-> tmpls, count |-> 0,
               num |-> Len(tmpls), iters |-> 0, done |-> FALSE]
    /\ UNCHANGED <<hdocs, disk, hauto, nextObj, docs, tmpls, nextW, edits, saves,
                   hist, scope>>

\* the loop test, and one pass of the loop or the return
SweepStep ==
    /\ res.op = "sweep" /\ ~res.done
    /\ IF res.count < res.num
       THEN LET b == SweepBody(tmpls, res.count, res.num, res.live)
            IN /\ tmpls' = b.list
               /\ res' = [res EXCEPT !.count = b.count, !.num = b.num,
                                      !.iters = @ + 1]
       ELSE /\ tmpls' = tmpls
            /\ res' = [res EXCEPT !.done = TRUE]
    /\ UNCHANGED <<hdocs, disk, hauto, nextObj, docs, nextW, edits, saves, hist, scope>>

TemplatesNext ==
    \/ \E h \in Tmpls : LoadIfAbsent(h)
    \/ \E live \in SUBSET Tmpls : SweepBegin(live)
    \/ SweepStep

\* _load_tmpl and cleanup called on every template list
SpecTemplates == InitTemplates /\ [][TemplatesNext]_vars

\* the same calls; cleanup runs on the caller's thread with nothing to wait
\* for, so a loop that can make a pass makes it
SpecSweep == InitTemplates /\ [][TemplatesNext]_vars /\ WF_vars(SweepStep)

\* ==================================================================== claims
\* the template objects the TemplateSet wraps, the document objects the
\* DocumentSet wraps
TmplObjs(list) == {list[i].raw.obj : i \in 1..Len(list)}

DocObjs(list) == {list[i].raw.obj : i \in 1..Len(list)}

NoDuplicates(list) ==
    \A i, j \in 1..Len(list) : HostEq(list[i].raw, list[j].raw) => i = j

\* C1: open(p) of a path that is not open appends one wrapper and returns it;
\* open(p) again, right after, returns that same wrapper and appends nothing,
\* so the two calls make the DocumentSet one longer.
C1_OpenTwice ==
    [][/\ (hist'.op = "open" /\ hist'.fresh) =>
            /\ Len(docs') = Len(docs) + 1
            /\ docs'[Len(docs')].w = hist'.ret
            /\ \A i \in 1..Len(docs) : docs'[i] = docs[i] /\ docs[i].w # hist'.ret
       /\ (hist.op = "open" /\ hist.fresh /\ hist'.op = "open" /\ hist'.arg = hist.arg) =>
            /\ hist'.ret = hist.ret
            /\ docs' = docs]_vars

C1_Witness == hist.op = "open" /\ hist.again /\ Len(docs) = 2

\* C2: after any sequence of successful calls the DocumentSet is as long as
\* the number of documents open in the host, and wraps exactly those.
C2_SizeAgreement ==
    /\ Len(docs) = Cardinality(DOMAIN hdocs)
    /\ DocObjs(docs) = DOMAIN hdocs

C2_Witness == hist.op = "close" /\ Len(docs) = 1 /\ nextObj = 3

\* C3: neither the DocumentSet nor the TemplateSet holds two wrappers whose
\* handles are equal under host equality.
C3_NoDuplicateWrappers == NoDuplicates(docs) /\ NoDuplicates(tmpls)

C3_Witness == hist.op = "open" /\ ~hist.fresh /\ Len(docs) = 2 /\ Len(tmpls) = 3

\* the template of the document the last call returned / closed
OpenedTmpl == hdocs'[docs'[IndexOf(docs', hist'.ret)].raw.obj].tmpl

ClosedTmpl == hdocs[docs[IndexOf(docs, hist'.w)].raw.obj].tmpl

\* C4: opening or adding a document whose template is not in the TemplateSet
\* makes the TemplateSet one longer; closing a document whose template (not
\* the normal one) no other open document references makes it one shorter;
\* the normal template is a member before and after.
C4_TemplateLifecycle ==
    [][/\ (hist'.op \in {"open", "add"} /\ OpenedTmpl \notin TmplObjs(tmpls)) =>
            Len(tmpls') = Len(tmpls) + 1
       /\ (/\ hist'.op = "close"
           /\ ClosedTmpl # NormalT
           /\ ClosedTmpl \in TmplObjs(tmpls)
           /\ \A o \in DOMAIN hdocs' : hdocs'[o].tmpl # ClosedTmpl) =>
            Len(tmpls') = Len(tmpls) - 1
       /\ (hist'.op \in {"open", "add", "close"}) =>
            NormalT \in TmplObjs(tmpls) /\ NormalT \in TmplObjs(tmpls')]_vars

\* C5: after every lifecycle call the TemplateSet wraps exactly the templates
\* attached to an open document, and the normal template.
C5_DerivedMembership ==
    TmplObjs(tmpls) = {NormalT} \cup {hdocs[o].tmpl : o \in DOMAIN hdocs}

C5_Witness ==
    /\ hist.op = "reassign" /\ hist.fresh
    /\ Len(docs) = 2
    /\ TmplObjs(tmpls) = {NormalT, "t2"}

\* C6: the normal template is in the TemplateSet in every state; no sweep
\* removes it, whichever documents are open.
C6_NormalPinned == \E i \in 1..Len(tmpls) : tmpls[i].raw.obj = NormalT

C6_Witness ==
    /\ hist.op = "close_all"
    /\ nextObj = 3
    /\ \A p \in DocFiles : disk[p].tmpl # NormalT
    /\ TmplObjs(tmpls) = {NormalT}

\* index of the document the last call acted on, before the call
Acted == IndexOf(docs, hist'.w)

\* C7: reassigning a document's attached template to the template it references
\* (in the host and in its snapshot alike) leaves the TemplateSet, members and
\* order, and the snapshot's attached_template as they were.
C7_IdempotentReassign ==
    [][(/\ hist'.op = "reassign"
        /\ ~hist'.fresh
        /\ Lower(docs[Acted].data.tmpl) = Lower(FullName(hdocs[docs[Acted].raw.obj].tmpl))) =>
            /\ tmpls' = tmpls
            /\ Lower(docs'[Acted].data.tmpl) = Lower(docs[Acted].data.tmpl)]_vars

\* the template the acted document had in the host before the call, and has
\* after it
OldTmpl == hdocs[docs[Acted].raw.obj].tmpl

NewTmpl == hdocs'[docs[Acted].raw.obj].tmpl

ReassignWrites ==
    /\ NewTmpl = hist'.arg
    /\ docs'[Acted].data.tmpl = FullName(NewTmpl)
    /\ NewTmpl \in TmplObjs(tmpls')

StillReferenced(t) == \E o \in DOMAIN hdocs' : hdocs'[o].tmpl = t

\* C8 as stated: after reassigning from T1 to T2 the host has T2, the snapshot
\* has the full path the host reports, T2 is in the TemplateSet and T1 is
\* removed iff no open document references it.
C8_ReassignAsStated ==
    [][(hist'.op = "reassign" /\ hist'.fresh) =>
            /\ ReassignWrites
            /\ OldTmpl \in TmplObjs(tmpls) =>
                 (OldTmpl \notin TmplObjs(tmpls') <=> ~StillReferenced(OldTmpl))]_vars

\* C8 amended: ... and T1 is removed iff no open document references it and
\* it is not the normal template.
C8_Reassign ==
    [][(hist'.op = "reassign" /\ hist'.fresh) =>
            /\ ReassignWrites
            /\ OldTmpl \in TmplObjs(tmpls) =>
                 (OldTmpl \notin TmplObjs(tmpls') <=>
                     (~StillReferenced(OldTmpl) /\ OldTmpl # NormalT))]_vars

C8_Witness ==
    /\ hist.op = "reassign" /\ hist.fresh /\ hist.arg = "t2"
    /\ TmplObjs(tmpls) = {NormalT, "t2"}
    /\ \E o \in DOMAIN hdocs : hdocs[o].path = "b.doc" /\ hdocs[o].tmpl = "t2"

\* the snapshot a save_as(path), close(), open(path) sequence started from,
\* its writing styles being as captured (sync does not push them)
RoundTripDone ==
    hist.op = "open" /\ hist.snap # NoSnap /\ hist.snap.style = CaptureStyle

Reopened == docs[IndexOf(docs, hist.ret)].data

\* C9 as stated: the snapshot of a document reopened right after save_as(path)
\* and close() equals the snapshot the document had at save_as, whatever theme
\* and template value was set in it locally.
C9_RoundTripAsStated == RoundTripDone => LightEq(hist.snap, Reopened)

\* C9 amended: ... whatever theme was set in it locally, and whatever template,
\* given as the template itself or by its full name.
C9_DocRoundTrip ==
    (RoundTripDone /\ hist.snap.tmpl.full) => LightEq(hist.snap, Reopened)

C9_Witness ==
    /\ RoundTripDone
    /\ hist.snap.tmpl.full
    /\ hist.snap.theme = [n |-> "none", u |-> TRUE]
    /\ disk[hist.arg].theme = "none"

\* C11: a save (sync, then the host's save) leaves the host document with the
\* snapshot's theme and attached template, and with the writing style it had,
\* whatever the snapshot's writing styles are; the call does not fail.
C11_SyncWritable ==
    [][hist'.op \in {"save", "save_as"} =>
        LET d == docs[Acted]
            o == d.raw.obj
        IN /\ Lower(HostActiveTheme(hdocs'[o])) = Lower(d.data.theme)
           /\ hdocs'[o].tmpl = HostResolve(d.data.tmpl)
           /\ hdocs'[o].style = hdocs[o].style]_vars

C11_Witness ==
    /\ hist.op = "save"
    /\ LET d == docs[IndexOf(docs, hist.w)]
       IN /\ d.data.style # CaptureStyleOf(hdocs[d.raw.obj])
          /\ hdocs[d.raw.obj].style = DefaultStyle

\* C10: Template.save makes the host template's auto-text entries exactly the
\* snapshot's mapping, so a snapshot captured then equals the local one.
C10_TmplRoundTrip ==
    [][hist'.op = "tmpl_save" =>
        LET j == GetWrapper(tmpls, Returned(hist'.arg))
        IN /\ hauto'[hist'.arg] = tmpls[j].data.auto
           /\ LightTemplate(hist'.arg, hauto') = tmpls'[j].data]_vars

C10_Witness ==
    /\ hist.op = "tmpl_save" /\ hist.arg = "t1"
    /\ hauto["t1"] = ("dear" :> "honey")

\* C12: every exit from the application's with-statement, with or without an
\* error raised in its body, calls quit exactly once, and the body's error
\* reaches the caller.
C12_SessionRelease ==
    scope.exit = "app" =>
        /\ scope.calls = <<[op |-> "quit", args |-> <<>>]>>
        /\ scope.seen = scope.exc
        /\ hdocs = EmptyMap

C12_Witness == scope.exit = "app" /\ scope.exc /\ scope.seen /\ Len(docs) = 2

\* C13: every exit from a document's with-statement, with or without an error,
\* calls close exactly once, without arguments; once the host has closed the
\* document it is not in the DocumentSet and the TemplateSet holds no
\* template the host has unloaded.
C13_DocumentRelease ==
    [][(scope.doc # 0 /\ scope'.exit = "doc") =>
        /\ scope'.calls = <<[op |-> "close", args |-> <<>>]>>
        /\ hist'.op = "close" =>
             /\ IndexOf(docs', scope.doc) = 0
             /\ Len(docs') = Len(docs) - 1
             /\ TmplObjs(tmpls') = TmplObjs(tmpls) \cap HostTemplates(hdocs')]_vars

C13_Witness ==
    /\ scope.exit = "doc" /\ scope.exc
    /\ hist.op = "close" /\ hist.arg = "b.doc"
    /\ Len(docs) = 1
    /\ TmplObjs(tmpls) = {NormalT}

\* C14: when the host's close fails, for one document or for all, the
\* DocumentSet and the TemplateSet are as they were before the call.
C14_FailedClose ==
    [][hist'.op \in {"close_failed", "close_all_failed"} =>
        docs' = docs /\ tmpls' = tmpls]_vars

C14_Witness ==
    /\ hist.op = "close_all_failed"
    /\ Len(docs) = 2
    /\ Cardinality(DOMAIN hdocs) = 1
    /\ Len(tmpls) = 3

\* what the same operation returns on the standard list of the wrappers the
\* collection holds
ListSame(list, r) ==
    CASE r.op = "getitem" /\ r.key.kind = "slice" ->
             ListSlice(list, r.key.start, r.key.stop, <<>>)
      [] r.op = "getitem" /\ r.key.kind # "slice" -> ListGetItem(list, r.key)
      [] OTHER -> ListCall(list, r.op, r.arg)

\* the reads of C15: integer and slice subscripts and the sequence methods
SequenceRead(r) ==
    /\ r.op \notin {"none", "append", "get_wrapper"}
    /\ r.op = "getitem" => r.key.kind # "str"
    /\ ~r.edited

\* C15: integer indexing (negative indices included), slicing with start,
\* stop and step, len, containment, count, index, forward and reverse
\* iteration on a collection return exactly what the same operation returns
\* on the standard sequence of its wrappers.
C15_SequenceSemantics ==
    SequenceRead(res) =>
        LET std == ListSame(CollList(res.coll), res)
        IN res.err = std.err /\ (res.err = "none" => res.out = std.out)

\* C16: no read of a collection (integer, slice or string subscript, len,
\* containment, count, index, forward and reverse iteration, resolve by
\* handle) changes the members or the order of the DocumentSet or the
\* TemplateSet, and changing a slice result does not change the collection.
C16_ReadsFrame == [][res'.op # "none" => docs' = docs /\ tmpls' = tmpls]_vars

\* a slice of two documents whose first item the caller has deleted
C16_Witness ==
    /\ res.op = "getitem" /\ res.coll = "docs" /\ res.edited
    /\ Len(docs) = 2 /\ res.out = <<docs[2].w>>

\* the step reads coll[i] with an integer i outside -N..N-1
OutOfRangeRead ==
    /\ res.op = "none" /\ res'.op = "getitem" /\ res'.key.kind = "int"
    /\ LET n == Len(CollList(res'.coll))
       IN res'.key.i < -n \/ res'.key.i > n - 1

\* C17: a subscript by an integer outside -N..N-1 of a collection of N
\* elements fails with IndexError, is not handed to the host, and leaves
\* the collection unchanged.
C17_OutOfRange ==
    [][OutOfRangeRead =>
          /\ res'.err = "IndexError" /\ ~res'.host
          /\ docs' = docs /\ tmpls' = tmpls /\ hdocs' = hdocs]_vars

\* documents[-3] with two documents open
C17_Witness ==
    /\ res.op = "getitem" /\ res.coll = "docs" /\ res.key = [kind |-> "int", i |-> -3]
    /\ Len(docs) = 2 /\ res.err = "IndexError"

\* the wrappers of a collection that a string key denotes: the documents of
\* that name, the templates of that full name
Denoted(c, key) ==
    LET list == CollList(c)
    IN IF c = "docs"
       THEN {i \in 1..Len(list) : /\ list[i].raw.obj \in DOMAIN hdocs
                                   /\ HostDocName(list[i].raw.obj, hdocs) = key}
       ELSE {i \in 1..Len(list) : list[i].raw.obj = HostResolve(key)}

\* the step reads coll[key] with a string that denotes no wrapper
AbsentKeyRead ==
    /\ res.op = "none" /\ res'.op = "getitem" /\ res'.key.kind = "str"
    /\ Denoted(res'.coll, res'.key.s) = {}

\* C18: a subscript by a string key that denotes no live wrapper of the
\* collection fails with KeyError, and the collection is unchanged.
C18_AbsentKey ==
    [][AbsentKeyRead =>
          res'.err = "KeyError" /\ docs' = docs /\ tmpls' = tmpls]_vars

\* the string key of the object a wrapper of the collection wraps: the name
\* of a document, the full name of a template
KeyOf(c, o) ==
    [kind |-> "str", s |-> IF c = "docs" THEN HostDocName(o, hdocs) ELSE FullName(o)]

\* the lookup gives the wrapper w and leaves the list as it is
Gives(r, w, list) == r.err = "none" /\ r.out = w /\ r.list = list

\* C19: for every live object of a collection, the lookup by its string key
\* (document name, template full name), the lookup by its position and the
\* resolution of its raw handle return the very same wrapper, and none of
\* them adds a wrapper.
C19_SameWrapper ==
    \A c \in Colls : \A i \in 1..Len(CollList(c)) :
        LET list == CollList(c)
            o == list[i].raw.obj
        IN /\ Gives(Subscript(c, list, KeyOf(c, o), hdocs), list[i].w, list)
           /\ Gives(Subscript(c, list, [kind |-> "int", i |-> i - 1], hdocs), list[i].w, list)
           /\ Gives(ResolveHandle(list, Returned(o)), list[i].w, list)

\* documents["b.doc"] has returned the second of two documents
C19_Witness ==
    /\ res.op = "getitem" /\ res.coll = "docs" /\ res.key.kind = "str"
    /\ Len(docs) = 2 /\ res.err = "none" /\ res.out = docs[2].w
    /\ res.key = KeyOf("docs", docs[2].raw.obj)

\* new is old with one item more at its end
Appended(old, new) == Len(new) = Len(old) + 1 /\ SubSeq(new, 1, Len(old)) = old

\* the sequence without its k-th item
Without(seq, k) == SubSeq(seq, 1, k - 1) \o SubSeq(seq, k + 1, Len(seq))

C21_OpenAsDocument ==
    [][/\ (hist'.op = "open_as_document" /\ hist'.fresh) =>
            /\ Appended(docs, docs')
            /\ docs'[Len(docs')].w = hist'.ret
            /\ \A i \in 1..Len(docs) : docs[i].w # hist'.ret
       /\ (hist.op = "open_as_document" /\ hist'.op \in {"open", "open_as_document"}
              /\ hist'.arg = hist.arg) =>
            /\ hist'.ret = hist.ret
            /\ docs' = docs]_vars

\* a second open_as_document of a template, with another document open
C21_Witness ==
    /\ hist.op = "open_as_document" /\ hist.again /\ Len(docs) = 2
    /\ hdocs[docs[IndexOf(docs, hist.ret)].raw.obj].path = hist.arg

\* the step is _load_tmpl(h): no wrapper of h means one appended, a wrapper
\* of h means nothing changed
LoadsIfAbsent ==
    res.op = "none" /\ res'.op = "load" =>
        IF GetWrapper(tmpls, Returned(res'.h)) = 0
        THEN /\ Appended(tmpls, tmpls')
             /\ tmpls'[Len(tmpls')].raw.obj = res'.h
        ELSE tmpls' = tmpls

StillLive(list, live) == SelectSeq(list, LAMBDA x : x.raw.obj \in live)

\* C23: when cleanup returns, the TemplateSet is exactly the subsequence, in
\* the original order, of the Templates tracked before whose handle is in the
\* host's live template set: every other one is removed, none is added.
C23_Sweep ==
    (res.op = "sweep" /\ res.done) =>
        /\ tmpls = StillLive(res.from, res.live)
        /\ Cleanup(res.from, res.live) = tmpls

\* three templates tracked, the first two no longer live
C23_Witness ==
    /\ res.op = "sweep" /\ res.done
    /\ Len(res.from) = 3 /\ tmpls = <<res.from[3]>>

\* the passes made are the advances of the index plus the removals, the
\* index is within the list, and the loop is left after n passes
SweepProgress ==
    res.op = "sweep" =>
        /\ res.num = Len(tmpls)
        /\ 0 <= res.count /\ res.count <= res.num
        /\ res.iters = res.count + (Len(res.from) - Len(tmpls))
        /\ res.iters <= Len(res.from)
        /\ res.done => res.iters = Len(res.from) /\ res.count = Len(tmpls)

\* C24: cleanup of a TemplateSet of n wrappers ends: every pass of the loop
\* either advances the scan index or shortens the list by one, the index
\* never passes the end of the list, and the loop is left after exactly n
\* passes with the index equal to the final length.
C24_SweepTerminates ==
    /\ []SweepProgress
    /\ (res.op = "sweep") ~> (res.op = "sweep" /\ res.done)

\* a cleanup of three templates that kept one and removed two
C24_Witness ==
    /\ res.op = "sweep" /\ res.done
    /\ Len(res.from) = 3 /\ res.iters = 3 /\ res.count = 1 /\ Len(tmpls) = 1

\* the positions of the wrappers of the collection that wrap host object o
Wrapping(list, o) == {i \in 1..Len(list) : list[i].raw.obj = o}

\* C25: get_wrapper(handle) returns the first wrapper, in the order of the
\* collection, whose stored handle denotes the same host object as the
\* queried one, fails with ValueError when no wrapper does, and changes
\* nothing.
C25_Resolve ==
    [][(res.op = "none" /\ res'.op = "get_wrapper") =>
          LET list == CollList(res'.coll)
              hit == Wrapping(list, res'.key.o)
          IN /\ IF hit = {}
                THEN res'.err = "ValueError"
                ELSE /\ res'.err = "none"
                     /\ \E i \in hit : /\ \A j \in hit : i <= j
                                        /\ res'.out = list[i].w
             /\ docs' = docs /\ tmpls' = tmpls /\ hdocs' = hdocs]_vars

\* the handle of the last of three templates resolved
C25_Witness ==
    /\ res.op = "get_wrapper" /\ res.coll = "tmpls" /\ res.err = "none"
    /\ Len(tmpls) = 3 /\ res.out = tmpls[3].w /\ res.key.o = tmpls[3].raw.obj

\* wrapper w has been a member of the DocumentSet and is none now
Closed(w) == w < nextW /\ IndexOf(docs, w) = 0

\* the step opens or adds a document that was not open
OpensNew == hist'.op \in {"open", "add", "open_as_document"} /\ hist'.fresh

\* C26: a Document wrapper that close or close-all has removed from the
\* DocumentSet never is a member again, whatever is called later; opening
\* the same path again makes a new wrapper, distinct from every wrapper made
\* before, with a snapshot captured from the host at that moment.
C26_ClosedTerminal ==
    [][/\ \A w \in 1..(nextW - 1) : Closed(w) => Closed(w)'
       /\ \A i \in 1..Len(docs) : docs[i].w < nextW
       /\ OpensNew =>
              LET d == docs'[Len(docs')]
              IN /\ d.w = hist'.ret /\ d.w >= nextW /\ nextW' > d.w
                 /\ d.data = LightDocument(hdocs'[d.raw.obj])]_vars

\* a document saved under a path, closed and opened again from that path:
\* the first wrapper is gone, the new one holds a snapshot that is not the
\* old one
C26_Witness ==
    /\ hist.op = "open" /\ hist.fresh /\ hist.snap # NoSnap
    /\ Len(docs) = 1 /\ docs[1].w = hist.ret /\ Closed(1)
    /\ Reopened # hist.snap

\* C27: Document.close closes the host document first, then removes exactly
\* that wrapper from the DocumentSet, then sweeps the TemplateSet: the sweep
\* reads the host with the document already closed, so a template only that
\* document was attached to is swept by this very close.
C27_CloseOrder ==
    [][hist'.op = "close" =>
          LET i == IndexOf(docs, hist'.w)
              o == docs[i].raw.obj
          IN /\ i # 0 /\ o \in DOMAIN hdocs /\ o \notin DOMAIN hdocs'
             /\ docs' = Without(docs, i)
             /\ tmpls' = StillLive(tmpls, HostTemplates(hdocs'))]_vars

\* the only document attached to t1 closed, another document still open:
\* t1 is swept
C27_Witness ==
    /\ hist.op = "close" /\ hist.arg = "b.doc"
    /\ Len(docs) = 1 /\ hdocs[docs[1].raw.obj].path = "a.doc"
    /\ "t1" \notin TmplObjs(tmpls) /\ disk["b.doc"].tmpl = "t1"

\* what the file of a document holds when the host has saved the document
\* with the snapshot pushed to it
Pushed(data) ==
    [theme |-> IF Lower(data.theme) = NO_OBJ THEN "none" ELSE data.theme.n,
     tmpl |-> HostResolve(data.tmpl)]

\* C28: save and save_as of a Document and save of a Template push the
\* wrapper's snapshot to the host object before the host saves, never after
\* and never skipping it, so the saved file holds the snapshot; if the push
\* fails the host's save is not made and no file is written.
C28_SyncBeforeSave ==
    [][/\ hist'.op \in {"save", "save_as"} =>
              LET d == docs[Acted]
                  f == hdocs'[d.raw.obj].path
              IN /\ ~SyncFails(d.data)
                 /\ disk' = [disk EXCEPT ![f] = Pushed(d.data)]
       /\ hist'.op = "tmpl_save" =>
              \E j \in 1..Len(tmpls) :
                  /\ tmpls[j].raw.obj = hist'.arg
                  /\ disk' = [disk EXCEPT ![hist'.arg] = [auto |-> tmpls[j].data.auto]]
       /\ hist'.op = "save_failed" =>
              /\ SyncFails(docs[Acted].data)
              /\ disk' = disk /\ hdocs' = hdocs]_vars

\* b.doc saved with a theme assigned to its snapshot: the file has the theme
C28_Witness ==
    /\ hist.op = "save" /\ edits = 1
    /\ disk["b.doc"].theme = "blends"
    /\ \E i \in 1..Len(docs) : docs[i].w = hist.w /\ hdocs[docs[i].raw.obj].path = "b.doc"

\* C29: the sync of the theme makes exactly one host call: RemoveTheme when
\* the snapshot's theme is the NO_OBJ sentinel "none", else ApplyTheme with
\* the local theme value; never both and never none.
C29_ThemeSync ==
    [][hist'.op \in {"save", "save_as", "save_failed"} =>
          LET d == docs[Acted]
              c == SyncThemeCalls(d.data)
          IN /\ Len(c) = 1
             /\ IF Lower(d.data.theme) = NO_OBJ
                THEN c[1] = [op |-> "RemoveTheme", args |-> <<>>]
                ELSE c[1] = [op |-> "ApplyTheme", args |-> <<d.data.theme>>]
             /\ hist'.op # "save_failed" =>
                    hdocs'[d.raw.obj].theme = Pushed(d.data).theme]_vars

\* a document that had a theme saved with the sentinel assigned: the host
\* document has no theme
C29_Witness ==
    /\ hist.op = "save" /\ edits = 1
    /\ \E i \in 1..Len(docs) :
          /\ docs[i].w = hist.w /\ Lower(docs[i].data.theme) = NO_OBJ
          /\ hdocs[docs[i].raw.obj].path = "a.doc"
          /\ hdocs[docs[i].raw.obj].theme = "none"

\* every field of the two snapshots compares equal: for documents the active
\* theme, the attached template's path (both as the snapshot gives them, in
\* lower case) and the writing styles, for templates the auto-text mapping
FieldsEqual(kind, a, b) ==
    IF kind = "doc"
    THEN /\ Lower(a.theme) = Lower(b.theme)
         /\ Lower(a.tmpl) = Lower(b.tmpl)
         /\ a.style = b.style
    ELSE a.auto = b.auto

\* C30: two snapshots of one kind are == if and only if every captured field
\* compares equal; != is the negation of ==; == is reflexive and symmetric.
C30_SnapshotEq ==
    res.op = "eq" =>
        /\ res.eq <=> FieldsEqual(res.kind, res.a, res.b)
        /\ res.ne <=> ~res.eq
        /\ res.rev <=> res.eq
        /\ res.self

\* the snapshots of two documents that have the same theme and styles and
\* different templates compared
C30_Witness ==
    /\ res.op = "eq" /\ res.kind = "doc" /\ res.i # res.j
    /\ ~res.eq /\ res.ne
    /\ Lower(res.a.theme) = Lower(res.b.theme) /\ res.a.style = res.b.style

\* the snapshot of the document the host has just made a document object for
Captured == docs'[Len(docs')].data

\* C31: a writing-style query that fails for one language does not abort the
\* capture of a document's snapshot: the wrapper is made, the language has no
\* entry, and every language whose query succeeds has its three keys (ID,
\* name, local name), all with that language's style in lower case.
C31_StyleCapture ==
    [][(hist'.op \in {"open", "add", "open_as_document"} /\ hist'.fresh) =>
        /\ Len(docs') = Len(docs) + 1
        /\ \A l \in Langs, a \in LangAttrs :
              IF HostStyleFails(l)
              THEN <<l, a>> \notin DOMAIN Captured.style
              ELSE /\ <<l, a>> \in DOMAIN Captured.style
                   /\ Captured.style[<<l, a>>] =
                        Lower(HostStyle(hdocs'[docs'[Len(docs')].raw.obj], l))]_vars

C31_Witness ==
    /\ hist.op = "open" /\ hist.fresh /\ Len(docs) = 2
    /\ \E l \in Langs : HostStyleFails(l)
    /\ LET st == docs[Len(docs)].data.style
       IN /\ Cardinality(DOMAIN st) = 6
          /\ <<"fr", "NameLocal">> \in DOMAIN st
          /\ <<"xx", "ID">> \notin DOMAIN st

\* the wrappers of a list without their snapshots
Members(list) == [i \in 1..Len(list) |-> [w |-> list[i].w, raw |-> list[i].raw]]

\* the snapshots of the wrappers that are in the list before and after
SnapshotsKept(before, after) ==
    \A i \in 1..Len(before), j \in 1..Len(after) :
        (before[i].w = after[j].w /\ before[i].raw = after[j].raw) =>
            after[j].data = before[i].data

\* the host's document objects that stay open, and the templates' entries
HostKept ==
    /\ \A o \in DOMAIN hdocs \cap DOMAIN hdocs' : hdocs'[o] = hdocs[o]
    /\ hauto' = hauto

\* C32: an assignment to a snapshot (theme, attached template, auto-text
\* mapping) changes nothing in the host and no member of the DocumentSet or
\* the TemplateSet, and no later call but a save pushes it; open, add and
\* close leave the snapshot of every other wrapper as it was.
C32_LocalUntilSave ==
    [][/\ hist'.op \in {"edit_theme", "edit_tmpl", "edit_auto"} =>
            /\ hdocs' = hdocs /\ hauto' = hauto /\ disk' = disk
            /\ Members(docs') = Members(docs)
            /\ Members(tmpls') = Members(tmpls)
       /\ hist'.op \notin {"save", "save_as", "tmpl_save"} => HostKept
       /\ hist'.op \in {"open", "add", "close"} =>
            /\ SnapshotsKept(docs, docs')
            /\ SnapshotsKept(tmpls, tmpls')]_vars

\* a document was opened or added after a local change of the first one's
\* snapshot, which still is not the host's value
C32_Witness ==
    /\ hist.op \in {"open", "add"} /\ hist.fresh /\ Len(docs) = 2 /\ edits = 1
    /\ docs[1].raw.obj \in DOMAIN hdocs
    /\ Lower(docs[1].data.theme) # Lower(HostActiveTheme(hdocs[docs[1].raw.obj]))

\* the wrappers of the document open at the path of the coming open call
OpenAt(p) == {i \in 1..Len(docs) : /\ docs[i].raw.obj \in DOMAIN hdocs
                                    /\ hdocs[docs[i].raw.obj].path = p}

\* C33: open(path) of a document that is open returns the wrapper the
\* DocumentSet holds for it and makes none; the DocumentSet, and with it the
\* wrapper's snapshot, local changes not yet saved included, is the same
\* before and after.
C33_ReopenUnchanged ==
    [][(hist'.op = "open" /\ ~hist'.fresh) =>
        /\ docs' = docs
        /\ nextW' = nextW
        /\ \E i \in OpenAt(hist'.arg) :
              /\ hist'.ret = docs[i].w
              /\ docs'[i].data = docs[i].data]_vars

\* a reopen of a document whose snapshot has a local change the host has not
C33_Witness ==
    /\ hist.op = "open" /\ ~hist.fresh /\ edits = 1
    /\ LET d == docs[IndexOf(docs, hist.ret)]
       IN \/ Lower(d.data.theme) # Lower(HostActiveTheme(hdocs[d.raw.obj]))
          \/ HostResolve(d.data.tmpl) # hdocs[d.raw.obj].tmpl

\* C34: in every state, runs in which a snapshot's attached_template was
\* changed and then pushed by save or save_as included, every template
\* attached to a document open in the host is wrapped by the TemplateSet, and
\* every template the TemplateSet wraps is loaded in the host.
C34_TemplateSetCurrent ==
    /\ \A o \in DOMAIN hdocs : hdocs[o].tmpl \in TmplObjs(tmpls)
    /\ \A i \in 1..Len(tmpls) : tmpls[i].raw.obj \in HostTemplates(hdocs)

\* the last call was an open or add that raised
OpenOrAddFailed ==
    \E step \in FailSteps : hist'.op \in {OpenFailedOp[step], AddFailedOp[step]}

\* C35: an open(path) or add(...) that raises, in the host's open or add
\* call, in the template load or in the capture of the new document's
\* snapshot, leaves the DocumentSet and the TemplateSet exactly as they were
\* before the call.
C35_FailedOpenFrame == [][OpenOrAddFailed => docs' = docs /\ tmpls' = tmpls]_vars

\* the same for a raise in the host's call or in the template load only
C35_BeforeCapture ==
    [][(\E step \in {"host", "tmpl"} :
           hist'.op \in {OpenFailedOp[step], AddFailedOp[step]}) =>
        docs' = docs /\ tmpls' = tmpls]_vars

\* the DocumentSet alone, whichever statement raises
C35_DocumentSetKept == [][OpenOrAddFailed => docs' = docs]_vars

====
